---- MODULE Spec2Model ----
(***************************************************************************)
(* Model of Models/Seals/dataset/detection.py: the DetectionDataset facade *)
(* (its images mapping and the operations on it), the assembly of the      *)
(* training and testing batch producers, and the sample pipeline           *)
(* (multiple, encode_target, flatten, collate_batch).                      *)
(*                                                                         *)
(* A Python dict keeps insertion order, so the images mapping is a         *)
(* sequence of image records with pairwise distinct ids: update_image      *)
(* keys a record by its own id (line 311).  An image record is             *)
(*   [id, category, evaluated, target], target = [bbox, label],            *)
(* a Table held column-wise: bbox a sequence of <<xmin,ymin,xmax,ymax>>,   *)
(* label a sequence of class indices.                                      *)
(***************************************************************************)
EXTENDS Integers, Sequences, FiniteSets, TLC

VARIABLES
    images,     \* DetectionDataset.images (line 307)
    call,       \* the last operation called on the dataset and its arguments
    ret,        \* what that call returned, or the exception it raised
    noiseRuns,  \* number of add_noise calls so far
    boxesNoised, \* number of boxes the add_noise calls have processed so far
    drawn,      \* the images the sampler of the producer in ret has given so far
    pipe,       \* one batch on its way through multiple, flatten and collate_batch
    objects     \* the dict objects of the program and the datasets that refer to them

vars == <<images, call, ret, noiseRuns, boxesNoised, drawn, pipe, objects>>

----------------------------------------------------------------------------
(* Values *)

None == "None"

\* no argument, no return value
NoValue == <<>>

\* a call that returns v, a call that raises e
Ok(v) == [raised |-> None, value |-> v]

Raise(e) == [raised |-> e, value |-> NoValue]

Ids == {"A", "B"}

Roles == {"train", "test", "validate", "new"}

\* update_image and the constructor accept a record of any category
Categories == Roles \cup {"discard"}

NetIds == {7}

\* the evaluated marker of an image no network has scored
NotEvaluated == 0

\* empty_target, lines 40-42
empty_target == [bbox |-> <<>>, label |-> <<>>]

\* annotation targets given to update_image
OneInstance == [bbox |-> << <<0, 0, 2, 4>> >>, label |-> <<1>>]
TwoInstances == [bbox |-> << <<0, 0, 2, 4>>, <<2, 2, 6, 4>> >>, label |-> <<1, 2>>]

\* relative noise and offset arguments of add_noise
Noises == {0, 1}
Offsets == {0, 1}

\* values a component of torch.randn may take
Draws == {-1, 1}

\* cap on the number of add_noise calls
MaxNoiseRuns == 1

\* cap on the number of boxes processed by all add_noise calls together
MaxBoxes == 2

\* cap on the length of the files argument of mark_evalated
MaxFiles == 2

\* args.epoch_size is None
NoEpochSize == -1

\* args.resize is None
NoResize == 0

\* largest number of images whose samples make one batch
MaxBatchImages == 2

\* largest args.epoch_size, args.image_samples and args.batch_size
MaxEpochSize == 5
MaxImageSamples == 2
MaxBatchSize == 2

\* args.augment: the two known modes and an unknown one
Augments == {"crop", "resize", "none"}

----------------------------------------------------------------------------
(* Helpers on sequences *)

Range(s) == {s[i] : i \in 1..Len(s)}

RECURSIVE SeqsUpTo(_, _)
SeqsUpTo(S, n) ==
    IF n = 0 THEN {<<>>}
    ELSE LET shorter == SeqsUpTo(S, n - 1)
         IN  shorter \cup {Append(s, x) : s \in {t \in shorter : Len(t) = n - 1}, x \in S}

RECURSIVE SumSeq(_)
SumSeq(s) == IF s = <<>> THEN 0 ELSE Head(s) + SumSeq(Tail(s))

----------------------------------------------------------------------------
(* The images mapping *)

HasKey(imgs, k) == \E i \in 1..Len(imgs) : imgs[i].id = k

IndexOf(imgs, k) == CHOOSE i \in 1..Len(imgs) : imgs[i].id = k

KeySet(imgs) == {imgs[i].id : i \in 1..Len(imgs)}

Lookup(imgs, k) == imgs[IndexOf(imgs, k)]

\* self.images[image.id] = image
update_image(imgs, image) ==
    IF HasKey(imgs, image.id)
    THEN [imgs EXCEPT ![IndexOf(imgs, image.id)] = image]
    ELSE Append(imgs, image)

\* the filter of get_images with the comparison lost: any category is truthy
KeepsImageTruthy(k, image) == k = None \/ image.category # ""

KeepsImage(k, image) == k = None \/ image.category = k

\* [image for image in self.images.values() if k is None or image.category == k]
get_images(imgs, k) == SelectSeq(imgs, LAMBDA image : KeepsImage(k, image))

train_images(imgs) == get_images(imgs, "train")
test_images(imgs) == get_images(imgs, "test")
validate_images(imgs) == get_images(imgs, "validate")
new_images(imgs) == get_images(imgs, "new")

\* mark_evalated without its assertion: an id that is not a key is skipped
RECURSIVE mark_evalated_skip(_, _, _)
mark_evalated_skip(imgs, files, net_id) ==
    IF files = <<>> THEN [images |-> imgs, raised |-> None]
    ELSE IF ~HasKey(imgs, Head(files))
         THEN mark_evalated_skip(imgs, Tail(files), net_id)
         ELSE mark_evalated_skip(
                [imgs EXCEPT ![IndexOf(imgs, Head(files))].evaluated = net_id],
                Tail(files), net_id)

\* mark_evalated checking every id before it marks any: a failing call marks
\* nothing
RECURSIVE mark_evalated_atomic(_, _, _)
mark_evalated_atomic(imgs, files, net_id) ==
    IF \E i \in 1..Len(files) : ~HasKey(imgs, files[i])
    THEN [images |-> imgs, raised |-> "AssertionError"]
    ELSE IF files = <<>> THEN [images |-> imgs, raised |-> None]
    ELSE mark_evalated_atomic(
            [imgs EXCEPT ![IndexOf(imgs, Head(files))].evaluated = net_id],
            Tail(files), net_id)

\* the loop of mark_evalated: ids are taken in order; the assertion stops
\* the loop at the first id that is not a key, keeping the marks already set
RECURSIVE mark_evalated(_, _, _)
mark_evalated(imgs, files, net_id) ==
    IF files = <<>> THEN [images |-> imgs, raised |-> None]
    ELSE IF ~HasKey(imgs, Head(files))
         THEN [images |-> imgs, raised |-> "AssertionError"]
         ELSE mark_evalated(
                [imgs EXCEPT ![IndexOf(imgs, Head(files))].evaluated = net_id],
                Tail(files), net_id)

\* categories.get(image.category, 0)
DictGet(d, k, default) == IF k \in DOMAIN d THEN d[k] ELSE default

\* categories[k] = v
DictSet(d, k, v) == [x \in DOMAIN d \cup {k} |-> IF x = k THEN v ELSE d[x]]

\* count_categories storing 1 instead of count + 1
RECURSIVE CountLoopOverwrite(_, _)
CountLoopOverwrite(imgs, categories) ==
    IF imgs = <<>> THEN categories
    ELSE CountLoopOverwrite(Tail(imgs), DictSet(categories, Head(imgs).category, 1))

RECURSIVE CountLoop(_, _)
CountLoop(imgs, categories) ==
    IF imgs = <<>> THEN categories
    ELSE LET image == Head(imgs)
             count == DictGet(categories, image.category, 0)
         IN  CountLoop(Tail(imgs), DictSet(categories, image.category, count + 1))

EmptyDict == [x \in {} |-> 0]

count_categories(imgs) == CountLoop(imgs, EmptyDict)

----------------------------------------------------------------------------
(* add_noise, lines 392-417.  Box coordinates are integers with xmin + xmax *)
(* and ymin + ymax even, so centres and half sizes are integers and the    *)
(* arithmetic below is the exact value of the floating-point computation.  *)

\* box.split: the first two and the last two columns
split(b) == [lower |-> <<b[1], b[2]>>, upper |-> <<b[3], b[4]>>]

\* box.extents_form: (xmin, ymin, xmax, ymax) -> (centre, size)
extents_form(b) ==
    LET p == split(b)
    IN  << (p.lower[1] + p.upper[1]) \div 2, (p.lower[2] + p.upper[2]) \div 2,
           p.upper[1] - p.lower[1], p.upper[2] - p.lower[2] >>

\* box.point_form: (centre, size) -> (xmin, ymin, xmax, ymax)
point_form(e) ==
    LET p == split(e)
        centre == p.lower
        size == p.upper
    IN  << centre[1] - size[1] \div 2, centre[2] - size[2] \div 2,
           centre[1] + size[1] \div 2, centre[2] + size[2] \div 2 >>

\* add_image_noise with the category test lost: every image gets the noise
NoisyBoxAll(b, category, noise, offset, d) ==
    LET e == split(extents_form(b))
        size0 == e.upper
        centre2 == <<e.lower[1] + offset * size0[1] + d.c[1] * noise * size0[1],
                     e.lower[2] + offset * size0[2] + d.c[2] * noise * size0[2]>>
        size2 == <<size0[1] * (d.s[1] * noise + 1), size0[2] * (d.s[2] * noise + 1)>>
    IN  point_form(<<centre2[1], centre2[2], size2[1], size2[2]>>)

\* one row of add_image_noise: d.c and d.s are this row of the two
\* torch.randn(n, 2) tensors, read only when the image is a train image
NoisyBox(b, category, noise, offset, d) ==
    LET e == split(extents_form(b))
        size0 == e.upper
        \* centre.add_(offset * size)
        centre1 == <<e.lower[1] + offset * size0[1], e.lower[2] + offset * size0[2]>>
        \* centre.add_(torch.randn(n, 2) * noise * size)
        centre2 == IF category = "train"
                   THEN <<centre1[1] + d.c[1] * noise * size0[1],
                          centre1[2] + d.c[2] * noise * size0[2]>>
                   ELSE centre1
        \* size.mul_(torch.randn(n, 2) * noise + 1)
        size2 == IF category = "train"
                 THEN <<size0[1] * (d.s[1] * noise + 1), size0[2] * (d.s[2] * noise + 1)>>
                 ELSE size0
    IN  point_form(<<centre2[1], centre2[2], size2[1], size2[2]>>)

\* image._extend(target=image.target._extend(bbox=noisy))
add_image_noise(image, noise, offset, draws) ==
    LET n == Len(image.target.label)
        noisy == [i \in 1..n |->
                    NoisyBox(image.target.bbox[i], image.category, noise, offset, draws[i])]
    IN  [image EXCEPT !.target.bbox = noisy]

\* self.images = {k: add_image_noise(image) for k, image in self.images.items()}
add_noise(imgs, noise, offset, draws) ==
    [i \in 1..Len(imgs) |-> add_image_noise(imgs[i], noise, offset, draws[i])]

RowDraws == [c : Draws \X Draws, s : Draws \X Draws]

\* the rows torch.randn(n, 2) gives for one image (twice: centre and size)
ImageDraws(image) == [1..Len(image.target.label) -> RowDraws]

RECURSIVE AllDraws(_)
AllDraws(imgs) ==
    IF imgs = <<>> THEN {<<>>}
    ELSE {<<h>> \o t : h \in ImageDraws(Head(imgs)), t \in AllDraws(Tail(imgs))}

\* the draws of one add_noise call; with noise = 0 every draw is multiplied
\* by zero (lines 402-403), so one draw stands for all of them
OneDraw(imgs) ==
    [i \in 1..Len(imgs) |->
        [j \in 1..Len(imgs[i].target.label) |-> [c |-> <<1, 1>>, s |-> <<1, 1>>]]]

NoiseDraws(imgs, noise) == IF noise = 0 THEN {OneDraw(imgs)} ELSE AllDraws(imgs)

\* the number of boxes of the whole collection
TotalBoxes(imgs) == SumSeq([i \in 1..Len(imgs) |-> Len(imgs[i].target.label)])

\* totals.iou / totals.n (line 416): with no train image both are the int 0
NoiseReport(imgs) ==
    IF train_images(imgs) = <<>> THEN "ZeroDivisionError" ELSE None

----------------------------------------------------------------------------
(* The sample pipeline, lines 18-48 and 202-277.  The crop, light and flip *)
(* stages change pixels and box coordinates and keep the rows of the       *)
(* target; filter_boxes drops the rows the crop has hidden.  A random      *)
(* outcome r of one run of the pipeline is the set of rows left visible.   *)

\* load_image: the pixels are attached to the record
load_image(image) == [image EXCEPT !.image = <<"pixels", image.id>>]

RECURSIVE KeepRows(_, _, _)
KeepRows(col, r, i) ==
    IF i > Len(col) THEN <<>>
    ELSE (IF i \in r THEN <<col[i]>> ELSE <<>>) \o KeepRows(col, r, i + 1)

\* box.filter_hidden on a Table: the same rows of every column
filter_hidden(target, r) ==
    [bbox |-> KeepRows(target.bbox, r, 1), label |-> KeepRows(target.label, r, 1)]

\* filter_boxes: d._extend(target=target)
filter_boxes(d, r) == [d EXCEPT !.target = filter_hidden(d.target, r)]

\* encoder.encode(image, target): opaque
Encode(image, target) == <<"encoding", image, target>>

\* encode_target: struct(image, encoding, target, lengths, id)
encode_target(d) ==
    [image |-> d.image,
     encoding |-> Encode(d.image, d.target),
     target |-> d.target,
     lengths |-> Len(d.target.label),
     id |-> d.id]

\* transforms.compose(crop, adjust_light, filter, flip, encode)
TransformSample(d, r) == encode_target(filter_boxes(d, r))

\* multiple feeding each result to the next call
RECURSIVE MultipleChained(_, _, _, _)
MultipleChained(n, data, rs, i) ==
    IF i > n THEN <<>>
    ELSE LET out == TransformSample(data, rs[i])
         IN  <<[input |-> data, output |-> out]>> \o MultipleChained(n, out, rs, i + 1)

\* [transform(data) for _ in range(n)]: every call with its input
RECURSIVE MultipleLoop(_, _, _, _)
MultipleLoop(n, data, rs, i) ==
    IF i > n THEN <<>>
    ELSE <<[input |-> data, output |-> TransformSample(data, rs[i])]>>
             \o MultipleLoop(n, data, rs, i + 1)

multiple(n, data, rs) == MultipleLoop(n, data, rs, 1)

Outputs(runs) == [i \in 1..Len(runs) |-> runs[i].output]

Inputs(runs) == [i \in 1..Len(runs) |-> runs[i].input]

\* [x for y in lists for x in y]
RECURSIVE Flatten(_)
Flatten(lists) ==
    IF lists = <<>> THEN <<>> ELSE Head(lists) \o Flatten(Tail(lists))

\* cat_tables: the columns of the tables, one after the other
RECURSIVE cat_tables(_)
cat_tables(tables) ==
    IF tables = <<>> THEN empty_target
    ELSE LET rest == cat_tables(Tail(tables))
         IN  [bbox |-> Head(tables).bbox \o rest.bbox,
              label |-> Head(tables).label \o rest.label]

\* default_collate: one entry per element, stacked along a new first axis
default_collate(values) == values

\* the Python type collate_batch meets in each field of a sample
FieldType(key) ==
    IF key = "target" THEN "Table"
    ELSE IF key = "id" THEN "str"
    ELSE "tensor"

\* collate_batch on the values of one field: Table, str, or anything else
CollateField(key, values) ==
    IF FieldType(key) = "Table" THEN cat_tables(values)
    ELSE IF FieldType(key) = "str" THEN values
    ELSE default_collate(values)

Column(batch, key) == [i \in 1..Len(batch) |-> batch[i][key]]

\* collate_batch that leaves out the samples without boxes
collate_batch_nonempty(batch) ==
    LET full == SelectSeq(batch, LAMBDA d : d.lengths > 0)
    IN  IF batch = <<>> THEN Raise("IndexError")
        ELSE Ok([key \in DOMAIN batch[1] |-> CollateField(key, Column(full, key))])

\* collate_batch on a list of samples (Structs): elem = batch[0], then
\* field by field over elem.keys()
collate_batch(batch) ==
    IF batch = <<>> THEN Raise("IndexError")
    ELSE Ok([key \in DOMAIN batch[1] |-> CollateField(key, Column(batch, key))])

\* no batch under way
NoPipe == [n |-> 0, loaded |-> <<>>, runs |-> <<>>, flat |-> <<>>, batch |-> <<>>]

----------------------------------------------------------------------------
(* Dict objects and the datasets that refer to them, lines 302-311.  A dict *)
(* is an object with an address; objects.dict[a] is the mapping held at     *)
(* address a, objects.self[i] the address in self.images of the i-th        *)
(* dataset constructed, objects.passed the addresses of the dicts the       *)
(* caller built and passed to a constructor.                                *)

\* the address of the dict that the default images={} of line 302 creates,
\* once, when the def statement is evaluated
DefaultImages == 1

\* the datasets constructed in one run
MaxInstances == 2

NoObjects == [dict |-> << <<>> >>, self |-> <<>>, passed |-> {}]

\* self.images = images: the dataset refers to the dict it was given
DetectionDataset(objs, address) == [objs EXCEPT !.self = Append(@, address)]

\* self.images of the i-th dataset
ImagesOf(objs, i) == objs.dict[objs.self[i]]

\* self.images[image.id] = image on the i-th dataset: the dict object that
\* self.images refers to is written
update_image_of(objs, i, image) ==
    [objs EXCEPT !.dict[objs.self[i]] = update_image(@, image)]

----------------------------------------------------------------------------
(* Actions of the facade *)

\* records as the annotation import creates them: not yet evaluated
ImageRecords ==
    [id : Ids, category : Categories, evaluated : {NotEvaluated},
     target : {empty_target, OneInstance}]

\* records of the label-noise experiments
NoiseRecords ==
    [id : Ids, category : {"train", "test"}, evaluated : {NotEvaluated},
     target : {empty_target, OneInstance, TwoInstances}]

Init ==
    /\ images = <<>>
    /\ call = [op |-> "__init__", arg |-> NoValue]
    /\ ret = [raised |-> None, value |-> NoValue]
    /\ noiseRuns = 0
    /\ boxesNoised = 0
    /\ drawn = <<>>
    /\ pipe = NoPipe
    /\ objects = NoObjects

UpdateImageFrom(records) ==
    \E image \in records :
        /\ images' = update_image(images, image)
        /\ call' = [op |-> "update_image", arg |-> image]
        /\ ret' = [raised |-> None, value |-> NoValue]
        /\ UNCHANGED <<noiseRuns, boxesNoised, drawn, pipe, objects>>

UpdateImage == UpdateImageFrom(ImageRecords)

MarkEvalated ==
    \E files \in SeqsUpTo(Ids, MaxFiles), net_id \in NetIds :
        LET r == mark_evalated(images, files, net_id)
        IN  /\ images' = r.images
            /\ call' = [op |-> "mark_evalated", arg |-> [files |-> files, net_id |-> net_id]]
            /\ ret' = [raised |-> r.raised, value |-> NoValue]
            /\ UNCHANGED <<noiseRuns, boxesNoised, drawn, pipe, objects>>

CountCategories ==
    /\ call' = [op |-> "count_categories", arg |-> NoValue]
    /\ ret' = [raised |-> None, value |-> count_categories(images)]
    /\ UNCHANGED <<images, noiseRuns, boxesNoised, drawn, pipe, objects>>

GetImages ==
    \E k \in Categories \cup {None} :
        /\ call' = [op |-> "get_images", arg |-> k]
        /\ ret' = [raised |-> None, value |-> get_images(images, k)]
        /\ UNCHANGED <<images, noiseRuns, boxesNoised, drawn, pipe, objects>>

\* add_noise(noise, offset) with noise drawn from noises
AddNoiseWith(noises) ==
    /\ noiseRuns < MaxNoiseRuns
    /\ boxesNoised + TotalBoxes(images) <= MaxBoxes
    /\ \E noise \in noises, offset \in Offsets :
         \E draws \in NoiseDraws(images, noise) :
            /\ images' = add_noise(images, noise, offset, draws)
            /\ call' = [op |-> "add_noise", arg |-> [noise |-> noise, offset |-> offset]]
            /\ ret' = [raised |-> NoiseReport(images), value |-> NoValue]
            /\ noiseRuns' = noiseRuns + 1
            /\ boxesNoised' = boxesNoised + TotalBoxes(images)
            /\ UNCHANGED <<drawn, pipe, objects>>

\* add_noise(offset=...) with the default noise=0
AddNoise == AddNoiseWith({0})

Next == UpdateImage \/ MarkEvalated \/ CountCategories \/ GetImages \/ AddNoise

Spec == Init /\ [][Next]_vars

----------------------------------------------------------------------------
(* The label-noise experiment: a dataset is filled and add_noise is run *)

UpdateNoiseImage == UpdateImageFrom(NoiseRecords)

AddRandomNoise == AddNoiseWith(Noises)

NextNoise == UpdateNoiseImage \/ AddRandomNoise

SpecNoise == Init /\ [][NextNoise]_vars

----------------------------------------------------------------------------
(* Batch producers, lines 167-199, 232-297 and 354-390.  A producer is the  *)
(* DataLoader's configuration: [sampler, batch_size, transform], the        *)
(* sampler [type, n, data] holding the list of images it was given.         *)

\* Python's round(a / b) for a >= 0, b > 0: to nearest, a tie to the even one
round_div(a, b) ==
    LET q == a \div b
        r == a % b
    IN  IF 2 * r < b THEN q
        ELSE IF 2 * r > b THEN q + 1
        ELSE IF q % 2 = 0 THEN q ELSE q + 1

\* n = round(args.epoch_size / args.image_samples)
TrainDraws(args) == round_div(args.epoch_size, args.image_samples)

\* sample_training dividing upwards
SampleDrawsCeil(args) ==
    (args.epoch_size + args.image_samples - 1) \div args.image_samples

\* args.epoch_size // args.image_samples
SampleDraws(args) == args.epoch_size \div args.image_samples

\* transform_training: the crop stage and the multiple(image_samples, ...) wrapper
transform_training(args) ==
    IF args.augment = "crop"
    THEN Ok([multiple |-> args.image_samples, stage |-> "random_crop_padded"])
    ELSE IF args.augment = "resize"
    THEN Ok([multiple |-> args.image_samples, stage |-> "resize_to"])
    ELSE Raise("AssertionError")

\* transform_testing: no branch for an unknown mode, the stage stays identity
transform_testing(args) ==
    IF args.augment = "crop"
    THEN Ok([multiple |-> 0,
             stage |-> IF args.resize # NoResize THEN "resize"
                       ELSE IF args.scale # 1 THEN "scale" ELSE "identity"])
    ELSE IF args.augment = "resize"
    THEN Ok([multiple |-> 0, stage |-> "resize_to"])
    ELSE Ok([multiple |-> 0, stage |-> "identity"])

\* load_training: line 168 divides before the None test of line 175
load_training(args, dataset, transform) ==
    IF args.epoch_size = NoEpochSize THEN Raise("TypeError")
    ELSE LET n == TrainDraws(args)
         IN  Ok([sampler |-> IF args.epoch_size # 0
                             THEN [type |-> "RepeatSampler", n |-> n, data |-> dataset]
                             ELSE [type |-> "RandomSampler", n |-> Len(dataset),
                                   data |-> dataset],
                 batch_size |-> args.batch_size,
                 transform |-> transform])

sample_training(args, imgs, transform) ==
    IF ~(args.epoch_size = NoEpochSize \/ args.epoch_size > 0)
    THEN Raise("AssertionError")
    ELSE IF args.batch_size % args.image_samples # 0
    THEN Raise("AssertionError")
    ELSE Ok([sampler |-> IF args.epoch_size # NoEpochSize
                         THEN [type |-> "direct.RandomSampler",
                               n |-> SampleDraws(args), data |-> imgs]
                         ELSE [type |-> "direct.ListSampler",
                               n |-> Len(imgs), data |-> imgs],
             batch_size |-> args.batch_size \div args.image_samples,
             transform |-> transform])

load_testing(args, imgs, transform) ==
    Ok([sampler |-> [type |-> "SequentialSampler", n |-> Len(imgs), data |-> imgs],
        batch_size |-> 1,
        transform |-> transform])

\* DetectionDataset.train: the transform is built first, then the loader
train(imgs, args) ==
    LET t == transform_training(args)
    IN  IF t.raised # None THEN Raise(t.raised)
        ELSE load_training(args, train_images(imgs), t.value)

sample_train_on(list, args) ==
    LET t == transform_training(args)
    IN  IF t.raised # None THEN Raise(t.raised)
        ELSE sample_training(args, list, t.value)

sample_train(imgs, args) == sample_train_on(train_images(imgs), args)

test_on(list, args) ==
    LET t == transform_testing(args)
    IN  IF t.raised # None THEN Raise(t.raised)
        ELSE load_testing(args, list, t.value)

test(imgs, args) == test_on(test_images(imgs), args)

validate(imgs, args) == test_on(validate_images(imgs), args)

\* the number of images a sampler gives in one epoch
SamplerLen(sampler) == sampler.n

\* the images a sampler may give next, after those of d
NextDraws(sampler, d) ==
    IF Len(d) >= SamplerLen(sampler) THEN {}
    ELSE IF sampler.type \in {"RepeatSampler", "direct.RandomSampler"}
    THEN Range(sampler.data)
    ELSE IF sampler.type = "RandomSampler"
    THEN Range(sampler.data) \ Range(d)
    ELSE {sampler.data[Len(d) + 1]}

TrainArgs ==
    [epoch_size : {NoEpochSize} \cup (0..MaxEpochSize),
     image_samples : 1..MaxImageSamples,
     batch_size : 1..MaxBatchSize,
     augment : Augments, scale : {1}, resize : {NoResize}]

TestArgs ==
    [epoch_size : {NoEpochSize}, image_samples : {1}, batch_size : {1},
     augment : Augments, scale : {1, 2}, resize : {NoResize, 2}]

LoaderRecords ==
    [id : Ids, category : {"train", "test"}, evaluated : {NotEvaluated},
     target : {empty_target}]

Assemble(op, arg, result) ==
    /\ call' = [op |-> op, arg |-> arg]
    /\ ret' = result
    /\ drawn' = <<>>
    /\ UNCHANGED <<images, noiseRuns, boxesNoised, pipe, objects>>

Train == \E args \in TrainArgs : Assemble("train", args, train(images, args))

SampleTrain ==
    \E args \in TrainArgs : Assemble("sample_train", args, sample_train(images, args))

SampleTrainOn ==
    \E args \in TrainArgs, k \in {None, "test"} :
        Assemble("sample_train_on", args, sample_train_on(get_images(images, k), args))

Test == \E args \in TestArgs : Assemble("test", args, test(images, args))

Validate == \E args \in TestArgs : Assemble("validate", args, validate(images, args))

ProducerOps == {"train", "sample_train", "sample_train_on", "test", "validate"}

HasProducer == call.op \in ProducerOps /\ ret.raised = None

\* the producer's sampler gives its next image
DrawNext ==
    /\ HasProducer
    /\ \E image \in NextDraws(ret.value.sampler, drawn) : drawn' = Append(drawn, image)
    /\ UNCHANGED <<images, call, ret, noiseRuns, boxesNoised, pipe, objects>>

UpdateLoaderImage == UpdateImageFrom(LoaderRecords)

NextLoader ==
    \/ UpdateLoaderImage
    \/ Train \/ SampleTrain \/ SampleTrainOn \/ Test \/ Validate
    \/ DrawNext

SpecLoader == Init /\ [][NextLoader]_vars

EpochDone == HasProducer /\ Len(drawn) = SamplerLen(ret.value.sampler)

\* the samples of the images drawn so far: multiple() gives image_samples each
SamplesDrawn == Len(drawn) * call.arg.image_samples

----------------------------------------------------------------------------
(* One batch of a training producer: multiple(n, transform) on each image  *)
(* the sampler gives, then flatten(collate_batch) on the list of results.  *)

PipelineImages ==
    { [id |-> "A", category |-> "train", evaluated |-> NotEvaluated, target |-> TwoInstances,
       image |-> <<>>],
      [id |-> "B", category |-> "train", evaluated |-> NotEvaluated, target |-> empty_target,
       image |-> <<>>] }

\* transform_training(args): a pipeline with args.image_samples runs per image
NewPipeline ==
    /\ \E n \in 0..MaxImageSamples : pipe' = [NoPipe EXCEPT !.n = n]
    /\ UNCHANGED <<images, call, ret, noiseRuns, boxesNoised, drawn, objects>>

\* the worker loads one image and applies multiple(n, transform) to it
ApplyMultiple ==
    /\ pipe.batch = <<>>
    /\ Len(pipe.loaded) < MaxBatchImages
    /\ \E image \in PipelineImages :
         \E rs \in [1..pipe.n -> SUBSET (1..Len(image.target.label))] :
            LET data == load_image(image)
            IN  pipe' = [pipe EXCEPT !.loaded = Append(@, data),
                                     !.runs = Append(@, multiple(pipe.n, data, rs))]
    /\ UNCHANGED <<images, call, ret, noiseRuns, boxesNoised, drawn, objects>>

\* flatten(collate_batch) on the results of the images of the batch
FlattenCollate ==
    /\ pipe.batch = <<>>
    /\ pipe.loaded # <<>>
    /\ LET lists == [i \in 1..Len(pipe.runs) |-> Outputs(pipe.runs[i])]
           flat == Flatten(lists)
       IN  pipe' = [pipe EXCEPT !.flat = flat, !.batch = <<collate_batch(flat)>>]
    /\ UNCHANGED <<images, call, ret, noiseRuns, boxesNoised, drawn, objects>>

NextPipeline == NewPipeline \/ ApplyMultiple \/ FlattenCollate

SpecPipeline == Init /\ [][NextPipeline]_vars

Collated == pipe.batch # <<>> /\ pipe.batch[1].raised = None

----------------------------------------------------------------------------
(* Properties of the facade *)

Listed(files, k) == \E i \in 1..Len(files) : files[i] = k

\* C1: mark_evalated(files, net_id) raises the assertion exactly when files
\* holds an id that is not a key of images; when every id is a key it
\* returns normally and sets evaluated = net_id on the listed images and on
\* no other, changing nothing else.
C1_MarkEvalated ==
    [][call'.op = "mark_evalated" =>
        LET files == call'.arg.files
            net_id == call'.arg.net_id
            unknown == \E i \in 1..Len(files) : ~HasKey(images, files[i])
        IN  /\ ret'.raised = (IF unknown THEN "AssertionError" ELSE None)
            /\ ~unknown =>
                  /\ Len(images') = Len(images)
                  /\ \A j \in 1..Len(images) :
                        images'[j] = IF Listed(files, images[j].id)
                                     THEN [images[j] EXCEPT !.evaluated = net_id]
                                     ELSE images[j]]_vars

\* C1 witness: a successful call that lists A and not B
C1_Witness ==
    /\ call.op = "mark_evalated"
    /\ call.arg.files = <<"A">>
    /\ ret.raised = None
    /\ HasKey(images, "A") /\ HasKey(images, "B")
    /\ Lookup(images, "A").evaluated = 7
    /\ Lookup(images, "B").evaluated = NotEvaluated

SeqDisjoint(s, t) == Range(s) \cap Range(t) = {}

RoleLists(imgs) ==
    <<train_images(imgs), test_images(imgs), validate_images(imgs), new_images(imgs)>>

PairwiseDisjointRoles(imgs) ==
    \A a, b \in 1..4 : a # b => SeqDisjoint(RoleLists(imgs)[a], RoleLists(imgs)[b])

ListsHolding(imgs, image) == {a \in 1..4 : image \in Range(RoleLists(imgs)[a])}

\* C6 as stated: the four role lists are pairwise disjoint and together hold
\* every image of get_images().
C6_RolesPartition ==
    /\ PairwiseDisjointRoles(images)
    /\ \A image \in Range(get_images(images, None)) : ListsHolding(images, image) # {}

\* C6 amended: the four role lists are pairwise disjoint and hold only images
\* of the collection; an image is in exactly one of them when its category
\* is one of train, test, validate, new, and in none of them otherwise.
C6_RolesPartitionAmended ==
    /\ PairwiseDisjointRoles(images)
    /\ \A a \in 1..4 : Range(RoleLists(images)[a]) \subseteq Range(images)
    /\ \A image \in Range(get_images(images, None)) :
          Cardinality(ListsHolding(images, image)) =
              (IF image.category \in Roles THEN 1 ELSE 0)

\* C6 witness: after add_noise and mark_evalated, a train image and an image
\* of another category than the four roles
C6_Witness ==
    /\ noiseRuns > 0
    /\ Len(images) = 2
    /\ images[1].category = "train" /\ images[1].evaluated = 7
    /\ images[2].category = "discard"

CountOf(imgs, c) == Cardinality({i \in 1..Len(imgs) : imgs[i].category = c})

\* C7: count_categories returns a mapping whose keys are the categories that
\* have at least one image, each with the number of images of that category;
\* the counts sum to the number of distinct image ids; {A: train, B: test}
\* gives {train: 1, test: 1}; and the call leaves the collection unchanged.
C7_CountCategories ==
    [][call'.op = "count_categories" =>
        LET counts == ret'.value
        IN  /\ images' = images
            /\ ret'.raised = None
            /\ DOMAIN counts = {c \in Categories : CountOf(images, c) > 0}
            /\ \A c \in DOMAIN counts : counts[c] = CountOf(images, c)
            /\ SumSeq([i \in 1..Len(images) |->
                         IF \E j \in 1..(i - 1) : images[j].category = images[i].category
                         THEN 0 ELSE counts[images[i].category]])
                 = Cardinality(KeySet(images))
            /\ (/\ KeySet(images) = {"A", "B"}
                /\ Lookup(images, "A").category = "train"
                /\ Lookup(images, "B").category = "test")
               => counts = [c \in {"train", "test"} |-> 1]]_vars

\* C7 witness: the counts of two train images and one call on {A: train, B: test}
C7_Witness ==
    /\ call.op = "count_categories"
    /\ KeySet(images) = {"A", "B"}
    /\ Lookup(images, "A").category = "train"
    /\ Lookup(images, "B").category = "test"
    /\ ret.value = [c \in {"train", "test"} |-> 1]

\* the boxes of an image that gets the offset alone
OffsetOnly(bbox, offset) ==
    [j \in 1..Len(bbox) |->
        LET b == bbox[j]
            w == b[3] - b[1]
            h == b[4] - b[2]
        IN  <<b[1] + offset * w, b[2] + offset * h, b[3] + offset * w, b[4] + offset * h>>]

\* C10: add_noise gives every image that is not a train image boxes that are
\* a function of its original boxes and of offset alone, whatever the noise
\* and the random draws, and it keeps every image's id, category, label and
\* instance count (and the keys of the collection, in order).
C10_NoiseOnlyOnTrain ==
    [][call'.op = "add_noise" =>
        /\ Len(images') = Len(images)
        /\ \A i \in 1..Len(images) :
              /\ images'[i].id = images[i].id
              /\ images'[i].category = images[i].category
              /\ images'[i].target.label = images[i].target.label
              /\ Len(images'[i].target.bbox) = Len(images[i].target.bbox)
              /\ images[i].category # "train" =>
                    images'[i].target.bbox =
                        OffsetOnly(images[i].target.bbox, call'.arg.offset)]_vars

\* C10 witness: one call with noise 1 and offset 1 on a test image, which is
\* shifted, and a train image, which is perturbed
C10_Witness ==
    /\ call.op = "add_noise" /\ call.arg.noise = 1 /\ call.arg.offset = 1
    /\ \E i, j \in 1..Len(images) :
          /\ images[i].category = "test"
          /\ images[i].target.bbox = OffsetOnly(OneInstance.bbox, 1)
          /\ images[j].category = "train"
          /\ Len(images[j].target.bbox) = 1
          /\ images[j].target.bbox # OffsetOnly(OneInstance.bbox, 1)

----------------------------------------------------------------------------
(* Properties of the batch producers *)

TrainingOps == {"train", "sample_train", "sample_train_on"}

KnownAugment(args) == args.augment \in {"crop", "resize"}

\* C2 as stated: whenever a training producer is assembled (train,
\* sample_train, sample_train_on) with batch_size not a multiple of
\* image_samples, assembly fails by assertion and no image is ever drawn.
\* (Stated for a configured epoch_size and a known augmentation mode, so
\* that no other failure of the assembly is what is observed.)
C2_BatchSizeChecked ==
    (/\ call.op \in TrainingOps
     /\ call.arg.batch_size % call.arg.image_samples # 0
     /\ call.arg.epoch_size > 0
     /\ KnownAugment(call.arg))
        => (ret.raised = "AssertionError" /\ drawn = <<>>)

\* C3 as stated: with a positive epoch_size, a finished epoch of a training
\* producer has given exactly epoch_size samples, for every positive
\* epoch_size and image_samples.
C3_ExactEpochSize ==
    (call.op \in TrainingOps /\ call.arg.epoch_size > 0 /\ EpochDone)
        => SamplesDrawn = call.arg.epoch_size

\* C3 amended: with a positive epoch_size, a finished epoch has given a
\* multiple of image_samples samples: for train the multiple nearest to
\* epoch_size (of two equally near ones, the even multiple), for
\* sample_train and sample_train_on the largest multiple not above
\* epoch_size; so exactly epoch_size samples if and only if image_samples
\* divides epoch_size.
C3_EpochSizeRounded ==
    (call.op \in TrainingOps /\ call.arg.epoch_size > 0 /\ EpochDone) =>
        LET e == call.arg.epoch_size
            m == call.arg.image_samples
            got == SamplesDrawn
        IN  /\ got % m = 0
            /\ call.op = "train" =>
                  /\ 2 * got - 2 * e <= m
                  /\ 2 * e - 2 * got <= m
                  /\ (2 * got - 2 * e = m \/ 2 * e - 2 * got = m) => (got \div m) % 2 = 0
            /\ call.op # "train" => (got <= e /\ e - got < m)
            /\ (got = e) <=> (e % m = 0)

\* C3 witness: a finished epoch of train with epoch_size 3 and two samples
\* per image, which has given 4 samples
C3_Witness ==
    /\ call.op = "train" /\ EpochDone
    /\ call.arg.epoch_size = 3 /\ call.arg.image_samples = 2
    /\ SamplesDrawn = 4

\* C4 as stated: with epoch_size None (and an otherwise valid configuration)
\* assembling with train or sample_train succeeds, and a finished epoch has
\* visited every train image exactly once.
C4_FullPassWithoutEpochSize ==
    (/\ call.op \in {"train", "sample_train"}
     /\ call.arg.epoch_size = NoEpochSize
     /\ KnownAugment(call.arg)
     /\ call.arg.batch_size % call.arg.image_samples = 0)
        => /\ ret.raised = None
           /\ EpochDone =>
                 /\ Len(drawn) = Len(ret.value.sampler.data)
                 /\ Range(drawn) = Range(ret.value.sampler.data)

\* C5 as stated: with an unknown augmentation mode, building a transform
\* pipeline fails by assertion, through transform_training (train,
\* sample_train, sample_train_on) and through transform_testing (test,
\* validate) alike, and no producer is returned.
C5_UnknownAugmentFails ==
    (call.op \in ProducerOps /\ ~KnownAugment(call.arg))
        => ret.raised = "AssertionError"

----------------------------------------------------------------------------
(* Properties of the sample pipeline *)

\* C8: multiple(n, transform) on one image record calls transform exactly n
\* times, each time on that same base record, and returns n samples;
\* flatten(collate) on the results of k images hands collate one flat list
\* of k * n samples in image order, and for one image the collated batch
\* has leading dimension n.
C8_MultipleFlatten ==
    /\ \A i \in 1..Len(pipe.runs) :
          /\ Len(pipe.runs[i]) = pipe.n
          /\ \A j \in 1..Len(pipe.runs[i]) : pipe.runs[i][j].input = pipe.loaded[i]
    /\ pipe.batch # <<>> =>
          /\ Len(pipe.flat) = Len(pipe.loaded) * pipe.n
          /\ \A i \in 1..Len(pipe.loaded) : \A j \in 1..pipe.n :
                pipe.flat[(i - 1) * pipe.n + j] = pipe.runs[i][j].output
    /\ (Collated /\ Len(pipe.loaded) = 1) =>
          /\ Len(pipe.batch[1].value.image) = pipe.n
          /\ Len(pipe.batch[1].value.lengths) = pipe.n
          /\ Len(pipe.batch[1].value.id) = pipe.n

\* C8 witness: a collated batch of two images with two samples each
C8_Witness ==
    /\ Collated
    /\ pipe.n = 2
    /\ Len(pipe.loaded) = 2
    /\ pipe.loaded[1].id = "A" /\ pipe.loaded[2].id = "B"
    /\ Len(pipe.flat) = 4

\* C9: a sample whose target has no instance is dropped neither by
\* encode_target nor by the collation: the collated batch has one lengths
\* entry per sample, in the order of the samples, the entry of a sample
\* without instance is 0, and the entries sum to the number of target
\* instances of the batch.
C9_EmptyTargetsKept ==
    /\ \A i \in 1..Len(pipe.runs) : \A j \in 1..Len(pipe.runs[i]) :
          LET d == pipe.runs[i][j].output
          IN  /\ d.lengths = Len(d.target.bbox)
              /\ d.lengths = Len(d.target.label)
              /\ d.id = pipe.loaded[i].id
    /\ Collated =>
          LET b == pipe.batch[1].value
          IN  /\ Len(b.lengths) = Len(pipe.flat)
              /\ Len(b.id) = Len(pipe.flat)
              /\ \A i \in 1..Len(pipe.flat) :
                    /\ b.lengths[i] = Len(pipe.flat[i].target.label)
                    /\ b.id[i] = pipe.flat[i].id
              /\ SumSeq(b.lengths) = Len(b.target.label)
              /\ SumSeq(b.lengths) = Len(b.target.bbox)

\* C9 witness: a collated batch with a sample of two instances between two
\* samples without instance
C9_Witness ==
    /\ Collated
    /\ Len(pipe.flat) >= 3
    /\ pipe.batch[1].value.lengths[1] = 0
    /\ pipe.batch[1].value.lengths[2] = 2
    /\ pipe.batch[1].value.lengths[3] = 0


----------------------------------------------------------------------------
(* mark_evalated on a list with an unknown id *)

\* the position in files of the first id that is not a key of imgs
FailingPosition(imgs, files) ==
    CHOOSE p \in 1..Len(files) :
        /\ ~HasKey(imgs, files[p])
        /\ \A i \in 1..(p - 1) : HasKey(imgs, files[i])

ListedBefore(files, p, k) == \E i \in 1..(p - 1) : files[i] = k

CategoriesOf(imgs) == [i \in 1..Len(imgs) |-> <<imgs[i].id, imgs[i].category>>]

\* C13: mark_evalated takes the ids of files in order and is not atomic: when
\* it fails on the first id that is not a key of images, every image whose
\* id precedes that position in files has evaluated = net_id, every other
\* image (listed only after the failing position, or not listed) keeps its
\* previous evaluated marker; whether the call fails or not, the keys and
\* the categories of images are the same as before the call.
C13_MarkEvalatedPrefix ==
    [][call'.op = "mark_evalated" =>
        LET files == call'.arg.files
            net_id == call'.arg.net_id
        IN  /\ KeySet(images') = KeySet(images)
            /\ CategoriesOf(images') = CategoriesOf(images)
            /\ ret'.raised = "AssertionError" =>
                  LET p == FailingPosition(images, files)
                  IN  \A j \in 1..Len(images) :
                        images'[j].evaluated =
                            IF ListedBefore(files, p, images[j].id)
                            THEN net_id
                            ELSE images[j].evaluated]_vars

\* C13 witness: the call on <<A, B>> fails at B, which is not a key, and has
\* marked A
C13_Witness ==
    /\ call.op = "mark_evalated"
    /\ call.arg.files = <<"A", "B">>
    /\ ret.raised = "AssertionError"
    /\ KeySet(images) = {"A"}
    /\ Lookup(images, "A").evaluated = 7



----------------------------------------------------------------------------
(* The facade as a whole: the three methods that write images, and the      *)
(* methods that only read it, lines 313-390                                 *)

\* load_inference giving its record d to the dataset
load_inference_stored(imgs, id, args) ==
    LET d == [id |-> id, category |-> "new", evaluated |-> NotEvaluated,
              target |-> empty_target]
        t == transform_testing(args)
    IN  [images |-> update_image(imgs, d),
         ret |-> Ok([stage |-> t.value.stage, image |-> <<"pixels", id>>])]

\* load_inference: d is a record of its own, built from id and file, and only
\* the transformed image is returned
load_inference(imgs, id, args) ==
    LET d == [id |-> id, target |-> empty_target, image |-> <<>>]
        t == transform_testing(args)
    IN  [images |-> imgs,
         ret |-> Ok([stage |-> t.value.stage, image |-> load_image(d).image])]

FrameRecords ==
    [id : Ids, category : {"train", "test"}, evaluated : {NotEvaluated},
     target : {empty_target, OneInstance}]

FrameTrainArgs ==
    [epoch_size : {NoEpochSize, 1, MaxEpochSize}, image_samples : {1, MaxImageSamples},
     batch_size : {1}, augment : {"crop", "none"}, scale : {1}, resize : {NoResize}]

FrameTestArgs ==
    [epoch_size : {NoEpochSize}, image_samples : {1}, batch_size : {1},
     augment : {"crop", "none"}, scale : {1}, resize : {NoResize}]

UpdateFrameImage == UpdateImageFrom(FrameRecords)

\* the properties train_images, test_images, validate_images, new_images
RoleProperty ==
    \E k \in Roles :
        /\ call' = [op |-> k \o "_images", arg |-> NoValue]
        /\ ret' = Ok(CASE k = "train" -> train_images(images)
                       [] k = "test" -> test_images(images)
                       [] k = "validate" -> validate_images(images)
                       [] OTHER -> new_images(images))
        /\ UNCHANGED <<images, noiseRuns, boxesNoised, drawn, pipe, objects>>

FrameTrain == \E args \in FrameTrainArgs : Assemble("train", args, train(images, args))

FrameSampleTrain ==
    \E args \in FrameTrainArgs :
        Assemble("sample_train", args, sample_train(images, args))

FrameSampleTrainOn ==
    \E args \in FrameTrainArgs :
        Assemble("sample_train_on", args, sample_train_on(get_images(images, None), args))

FrameTest == \E args \in FrameTestArgs : Assemble("test", args, test(images, args))

FrameTestOn ==
    \E args \in FrameTestArgs :
        Assemble("test_on", args, test_on(get_images(images, None), args))

FrameValidate ==
    \E args \in FrameTestArgs : Assemble("validate", args, validate(images, args))

LoadInference ==
    \E id \in Ids, args \in FrameTestArgs :
        LET r == load_inference(images, id, args)
        IN  /\ images' = r.images
            /\ call' = [op |-> "load_inference", arg |-> [id |-> id, args |-> args]]
            /\ ret' = r.ret
            /\ UNCHANGED <<noiseRuns, boxesNoised, drawn, pipe, objects>>

NextFrame ==
    \/ UpdateFrameImage \/ MarkEvalated \/ AddNoise
    \/ GetImages \/ CountCategories \/ RoleProperty
    \/ FrameTrain \/ FrameSampleTrain \/ FrameSampleTrainOn
    \/ FrameTest \/ FrameTestOn \/ FrameValidate
    \/ LoadInference

SpecFrame == Init /\ [][NextFrame]_vars

ReadOnlyOps ==
    {"get_images", "count_categories",
     "train_images", "test_images", "validate_images", "new_images",
     "train", "sample_train", "sample_train_on", "test", "test_on", "validate",
     "load_inference"}

MutationOps == {"update_image", "mark_evalated", "add_noise"}

\* the same keys, and under every key the same category, marker and target
SameRecords(a, b) ==
    /\ KeySet(a) = KeySet(b)
    /\ \A k \in KeySet(a) :
          /\ Lookup(a, k).category = Lookup(b, k).category
          /\ Lookup(a, k).evaluated = Lookup(b, k).evaluated
          /\ Lookup(a, k).target = Lookup(b, k).target

\* C12: get_images, count_categories, the role properties and assembling a
\* producer with train, sample_train, sample_train_on, test, test_on,
\* validate or load_inference leave the key set of images and every
\* record's category, evaluated marker and target as they were; a step that
\* changes any of these is a call of update_image, mark_evalated or
\* add_noise.
C12_ReadOnlyOutsideMutators ==
    [][/\ call'.op \in ReadOnlyOps => SameRecords(images, images')
       /\ ~SameRecords(images, images') => call'.op \in MutationOps]_vars

\* C12 witness: load_inference has been called for id A on a dataset that
\* holds only B, marked as evaluated, and A is still not a key
C12_Witness ==
    /\ call.op = "load_inference"
    /\ call.arg.id = "A"
    /\ ret.raised = None
    /\ KeySet(images) = {"B"}
    /\ Lookup(images, "B").evaluated = 7


----------------------------------------------------------------------------
(* Several datasets in one program *)

OwnedRecords ==
    [id : Ids, category : {"train", "test"}, evaluated : {NotEvaluated},
     target : {empty_target}]

\* the dicts a caller builds before it constructs a dataset from them
CallerDicts ==
    {<<>>,
     <<[id |-> "A", category |-> "train", evaluated |-> NotEvaluated,
        target |-> empty_target]>>}

\* DetectionDataset()
ConstructDefault ==
    /\ Len(objects.self) < MaxInstances
    /\ objects' = DetectionDataset(objects, DefaultImages)
    /\ call' = [op |-> "__init__", arg |-> [images |-> DefaultImages]]
    /\ ret' = [raised |-> None, value |-> NoValue]
    /\ UNCHANGED <<images, noiseRuns, boxesNoised, drawn, pipe>>

\* d = {...}; DetectionDataset(d)
ConstructWith ==
    /\ Len(objects.self) < MaxInstances
    /\ \E content \in CallerDicts :
        LET address == Len(objects.dict) + 1
            built == [objects EXCEPT !.dict = Append(@, content),
                                     !.passed = @ \cup {address}]
        IN  /\ objects' = DetectionDataset(built, address)
            /\ call' = [op |-> "__init__", arg |-> [images |-> address]]
    /\ ret' = [raised |-> None, value |-> NoValue]
    /\ UNCHANGED <<images, noiseRuns, boxesNoised, drawn, pipe>>

\* update_image on one of the datasets
UpdateImageOf ==
    /\ \E i \in 1..Len(objects.self), image \in OwnedRecords :
        /\ objects' = update_image_of(objects, i, image)
        /\ call' = [op |-> "update_image", arg |-> [self |-> i, image |-> image]]
    /\ ret' = [raised |-> None, value |-> NoValue]
    /\ UNCHANGED <<images, noiseRuns, boxesNoised, drawn, pipe>>

NextOwnership == ConstructDefault \/ ConstructWith \/ UpdateImageOf

SpecOwnership == Init /\ [][NextOwnership]_vars

\* C11 as stated: update_image on one dataset leaves the images mapping of
\* every other dataset constructed, those constructed with the default
\* arguments included, and every mapping the caller passed to a constructor
\* as they were.
C11_ExclusiveOwnership ==
    [][call'.op = "update_image" =>
        LET i == call'.arg.self
        IN  /\ \A j \in (1..Len(objects.self)) \ {i} :
                  ImagesOf(objects', j) = ImagesOf(objects, j)
            /\ \A a \in objects.passed : objects'.dict[a] = objects.dict[a]]_vars

============================================================================
